---- MODULE Spec2Model ----
(***************************************************************************)
(* Model of the JWT middleware of go-json-rest (src/auth_jwt.go): the      *)
(* configuration and its construction (MiddlewareFunc), the request gate   *)
(* (middlewareImpl), LoginHandler, RefreshHandler and parseToken.          *)
(*                                                                         *)
(* Time is the Unix time in whole seconds, as the code reads it with       *)
(* time.Now().Unix(); durations are whole seconds.  One request is handled *)
(* at one instant.                                                         *)
(***************************************************************************)
EXTENDS Integers, Sequences, FiniteSets, TLC

VARIABLES
    config,   \* the JWTMiddleware literal the application wrote
    mw,       \* the JWTMiddleware the handlers read
    phase,    \* "new", "ready" (MiddlewareFunc returned) or "fatal" (log.Fatal)
    now,      \* time.Now().Unix()
    held,     \* the tokens the client holds
    res       \* the outcome of the request being handled

vars == <<config, mw, phase, now, held, res>>

----------------------------------------------------------------------------
(* Bounds of the exploration *)

\* the clock runs from 0 to MaxTime
MaxTime == 6
\* the Timeout and the MaxRefresh an application configures, in seconds
ShortTimeout == 2
RefreshWindow == 3
\* a time far after MaxTime
FarFuture == 99

\* time.Hour in seconds (the default Timeout)
Hour == 3600

----------------------------------------------------------------------------
(* Go values held in a claims map (map[string]interface{}) and their JSON   *)
(* encoding.  A value is a record [kind, s, n]; s is used by strings and n  *)
(* by numbers.                                                              *)

Str(x) == [kind |-> "string", s |-> x, n |-> 0]
I64(x) == [kind |-> "int64", s |-> "", n |-> x]
F64(x) == [kind |-> "float64", s |-> "", n |-> x]
JNum(x) == [kind |-> "number", s |-> "", n |-> x]
\* the nil interface value (JSON null)
Nil == [kind |-> "nil", s |-> "", n |-> 0]

\* encoding/json on a claims value: both Go number kinds become a JSON number
ToJSON(v) == IF v.kind \in {"string", "nil"} THEN v ELSE JNum(v.n)
\* encoding/json into interface{}: a JSON number becomes a float64
FromJSON(j) == IF j.kind \in {"string", "nil"} THEN j ELSE F64(j.n)

EncodeClaims(c) == [k \in DOMAIN c |-> ToJSON(c[k])]
DecodeClaims(j) == [k \in DOMAIN j |-> FromJSON(j[k])]

EmptyClaims == [k \in {} |-> Str("")]

\* for key := range src { dst[key] = src[key] }
CopyInto(dst, src) ==
    [k \in DOMAIN dst \cup DOMAIN src |-> IF k \in DOMAIN src THEN src[k] ELSE dst[k]]

\* m[key] = value
Put(m, key, value) ==
    [k \in DOMAIN m \cup {key} |-> IF k = key THEN value ELSE m[k]]

\* m[key]: the nil interface when the key is absent
Lookup(m, key) == IF key \in DOMAIN m THEN m[key] ELSE Nil

\* int64(x) of a float64 (the numbers of the model are whole)
Int64(v) == v.n

\* the type assertions x.(string) and x.(float64) on m[key]: they panic when
\* the key is absent (nil interface) or holds another kind
IsString(m, key) == key \in DOMAIN m /\ m[key].kind = "string"
IsFloat64(m, key) == key \in DOMAIN m /\ m[key].kind = "float64"

----------------------------------------------------------------------------
(* Keys, signing methods and tokens *)

NilKey == [isNil |-> TRUE, bytes |-> <<>>]
EmptyKey == [isNil |-> FALSE, bytes |-> <<>>]
SecretKey == [isNil |-> FALSE, bytes |-> <<1, 2>>]
OtherKey == [isNil |-> FALSE, bytes |-> <<6, 6>>]

HMACMethods == {"HS256", "HS384", "HS512"}
\* the methods jwt.GetSigningMethod knows
SigningMethods == HMACMethods \cup {"RS256"}

NoSig == [alg |-> "", key |-> NilKey, claims |-> EmptyClaims]
\* the signature of the JSON claims under method alg and key
Signature(alg, key, claims) == [alg |-> alg, key |-> key, claims |-> claims]

\* token.SignedString(key): a []byte key signs under the HMAC methods only
CanSign(alg) == alg \in HMACMethods
SignedString(alg, claims, key) ==
    [wf |-> TRUE, alg |-> alg, claims |-> EncodeClaims(claims),
     sig |-> Signature(alg, key, EncodeClaims(claims))]

\* a string that is not three dot-separated segments
Garbage == [wf |-> FALSE, alg |-> "", claims |-> EmptyClaims, sig |-> NoSig]
\* no token
NoToken == [wf |-> FALSE, alg |-> "none", claims |-> EmptyClaims, sig |-> NoSig]

----------------------------------------------------------------------------
(* jwt.Parse of the jwt-go library, as parseToken calls it *)

\* faulty variant: the token counts as expired in the second of its exp already
Expired_AtExp(c, t) == IsFloat64(c, "exp") /\ t >= c["exp"].n

\* "exp" has passed at time t: jwt.Parse reports the token expired when
\* now > int64(exp); a token without a numeric exp never expires
Expired(c, t) == IsFloat64(c, "exp") /\ t > c["exp"].n
\* "nbf" lies ahead of time t
NotValidYet(c, t) == IsFloat64(c, "nbf") /\ t < c["nbf"].n

\* token.Method.Verify(signing string, signature, key)
Verify(tok, key) ==
    /\ tok.alg \in HMACMethods
    /\ tok.sig = Signature(tok.alg, key, tok.claims)

\* faulty variant: the Keyfunc returns the key whatever the token's method
KeyfuncOK_AnyMethod(m, tok) == TRUE

\* the Keyfunc parseToken hands to jwt.Parse: the token's method must be the
\* configured one
KeyfuncOK(m, tok) == tok.alg = m.SigningAlgorithm

\* faulty variant: jwt.Parse without the check of exp
ParseError_NoExpiry(m, tok, t) ==
    IF ~tok.wf THEN "malformed"
    ELSE IF tok.alg \notin SigningMethods THEN "unavailable"
    ELSE IF tok.alg # m.SigningAlgorithm THEN "algorithm"
    ELSE IF ~(tok.alg \in HMACMethods /\ tok.sig = Signature(tok.alg, m.Key, tok.claims))
         THEN "signature"
    ELSE "nil"

\* jwt.Parse(tokenString, keyFunc) at time t: the error, if any
ParseError(m, tok, t) ==
    IF ~tok.wf THEN "malformed"
    ELSE IF tok.alg \notin SigningMethods THEN "unavailable"
    ELSE IF ~KeyfuncOK(m, tok) THEN "algorithm"
    ELSE IF Expired(DecodeClaims(tok.claims), t) THEN "expired"
    ELSE IF NotValidYet(DecodeClaims(tok.claims), t) THEN "notyet"
    ELSE IF ~Verify(tok, m.Key) THEN "signature"
    ELSE "nil"

----------------------------------------------------------------------------
(* The Authorization header of a request, as strings.SplitN(h, " ", 2)     *)
(* sees it: parts = 0 is the empty header, parts = 1 a header without a    *)
(* space; scheme is parts[0] and cred is parts[1]                          *)

Header(parts, scheme, cred) == [parts |-> parts, scheme |-> scheme, cred |-> cred]
NoHeader == Header(0, "", NoToken)
Bearer(tok) == Header(2, "Bearer", tok)

\* defaultTokenExtractor: the error of the returned function
ExtractError(h) ==
    IF h.parts = 0 THEN "Auth header empty"
    ELSE IF ~(h.parts = 2 /\ h.scheme = "Bearer") THEN "Invalid auth header"
    ELSE "nil"

\* parseToken: the error (of the extractor or of jwt.Parse) at time t
parseToken(m, h, t) ==
    IF ExtractError(h) # "nil" THEN ExtractError(h)
    ELSE ParseError(m, h.cred, t)

\* the *jwt.Token parseToken returns without error: decoded claims and raw string
ParsedClaims(h) == DecodeClaims(h.cred.claims)

----------------------------------------------------------------------------
(* The configuration (the fields of JWTMiddleware) *)

\* what PayloadFunc returns: extra claims, here with and without reserved keys
NoPayload == [set |-> FALSE, ret |-> EmptyClaims]
RolePayload == [set |-> TRUE, ret |-> [role |-> Str("admin")]]
ReservedPayload ==
    [set |-> TRUE,
     ret |-> [id |-> Str("root"), exp |-> I64(FarFuture),
              orig_iat |-> F64(FarFuture), role |-> Str("admin")]]

\* the configuration an application usually writes
Base ==
    [Realm |-> "realm", SigningAlgorithm |-> "", Key |-> SecretKey,
     Timeout |-> ShortTimeout, MaxRefresh |-> RefreshWindow,
     Authenticator |-> TRUE, Authorizator |-> "nil",
     StoreToken |-> FALSE, RemoveToken |-> FALSE,
     PayloadFunc |-> NoPayload,
     TokenExtractor |-> "nil", TokenName |-> "", TokenEnvName |-> "",
     LoginCallback |-> "nil", RefreshCallback |-> "nil"]

\* the durations and claims providers
TimingConfigs ==
    {[Base EXCEPT !.Timeout = t, !.MaxRefresh = r, !.PayloadFunc = p] :
        t \in {0, ShortTimeout}, r \in {0, RefreshWindow}, p \in {NoPayload, RolePayload, ReservedPayload}}
\* the optional callbacks
HookConfigs ==
    {[Base EXCEPT !.Authorizator = a, !.StoreToken = s, !.RemoveToken = r,
                  !.PayloadFunc = RolePayload] :
        a \in {"nil", "user"}, s \in BOOLEAN, r \in BOOLEAN}
\* algorithms and keys
KeyConfigs ==
    {[Base EXCEPT !.SigningAlgorithm = a, !.Key = k, !.PayloadFunc = RolePayload,
                  !.StoreToken = TRUE, !.RemoveToken = TRUE] :
        a \in {"", "HS384", "RS256"}, k \in {SecretKey, EmptyKey}}
\* configurations that lack a required field
BadConfigs ==
    {[Base EXCEPT !.Realm = r, !.Key = k, !.Authenticator = a] :
        r \in {"", "realm"}, k \in {NilKey, SecretKey}, a \in BOOLEAN}

Configs == TimingConfigs \cup HookConfigs \cup KeyConfigs \cup BadConfigs

----------------------------------------------------------------------------
(* Requests and their outcome *)

\* the accounts Authenticator accepts
Accounts == {<<"alice", "pw">>, <<"bob", "pw">>}
Authenticator(u, p) == <<u, p>> \in Accounts

\* a login request body; ok = FALSE is a body DecodeJsonPayload rejects
Body(ok, u, p) == [ok |-> ok, Username |-> u, Password |-> p]
NoBody == Body(FALSE, "", "")

\* one call of a callback of the configuration (or of the wrapped handler),
\* with its arguments and, for the boolean callbacks, what it returned
Call(fn, user, tok, timeout, ret) ==
    [fn |-> fn, user |-> user, tok |-> tok, timeout |-> timeout, ret |-> ret]

NoEnv == [REMOTE_USER |-> "", JWT_PAYLOAD |-> EmptyClaims, TOKEN |-> NoToken]

\* a response: mw.unauthorized writes 401, WWW-Authenticate: JWT realm=<Realm>
\* and the body "Not Authorized"
Response(status, challenge, msg) == [status |-> status, challenge |-> challenge, msg |-> msg]
NoResponse == Response(0, "", "")
unauthorized(m) == Response(401, "JWT realm=" \o m.Realm, "Not Authorized")
\* defaultResponseCallback: the JSON body {"token": tokenString}
defaultResponseCallback == Response(200, "", "token")
\* the wrapped downstream handler's response
HandlerResponse == Response(200, "", "handler")

\* the outcome of the request handled at this instant: out is "unauthorized",
\* "handler" (the wrapped handler ran), "token" (a token was emitted) or
\* "panic" (a failed type assertion ended the request)
Outcome(op, h, b, out, resp, calls, tok, env) ==
    [op |-> op, t |-> now, hdr |-> h, body |-> b, out |-> out, resp |-> resp,
     calls |-> calls, token |-> tok, env |-> env]

NoOutcome ==
    [op |-> "none", t |-> 0, hdr |-> NoHeader, body |-> NoBody, out |-> "none",
     resp |-> NoResponse, calls |-> <<>>, token |-> NoToken, env |-> NoEnv]

Rejected(op, h, b, calls) ==
    Outcome(op, h, b, "unauthorized", unauthorized(mw), calls, NoToken, NoEnv)
Panicked(op, h, b, calls) ==
    Outcome(op, h, b, "panic", NoResponse, calls, NoToken, NoEnv)

\* the tokens the client holds: those of the session its last login began.
\* root is the login's token and t0 its time; cur is the latest token and
\* prev the one cur superseded
NoSession == [t0 |-> 0, root |-> NoToken, prev |-> NoToken, cur |-> NoToken]
HeldTokens == {held.cur, held.prev} \ {NoToken}

----------------------------------------------------------------------------
(* Construction *)

Default(v, unset, d) == IF v = unset THEN d ELSE v

\* the log.Fatal calls of MiddlewareFunc: the process exits at the first
Fatal(m) ==
    IF m.Realm = "" THEN "Realm is required"
    ELSE IF m.Key.isNil THEN "Key required"
    ELSE IF ~m.Authenticator THEN "Authenticator is required"
    ELSE "nil"

\* the assignments of MiddlewareFunc, in the order of the code, up to the
\* log.Fatal that ends it
Defaults(m) ==
    LET d1 == [m EXCEPT !.TokenName = Default(@, "", "Authorization"),
                        !.TokenEnvName = Default(@, "", "AUTH_TOKEN")]
        d2 == [d1 EXCEPT !.SigningAlgorithm = Default(@, "", "HS256")]
        d3 == [d2 EXCEPT !.Timeout = Default(@, 0, Hour)]
        d4 == [d3 EXCEPT !.TokenExtractor = Default(@, "nil", "default"),
                         !.Authorizator = Default(@, "nil", "default"),
                         !.LoginCallback = Default(@, "nil", "default"),
                         !.RefreshCallback = Default(@, "nil", "default")]
    IN  CASE Fatal(m) = "Realm is required" -> d1
          [] Fatal(m) = "Key required" -> d2
          [] Fatal(m) = "Authenticator is required" -> d3
          [] OTHER -> d4

Init ==
    /\ config \in Configs
    /\ mw = config
    /\ phase = "new"
    /\ now = 0
    /\ held = NoSession
    /\ res = NoOutcome

MiddlewareFunc ==
    /\ phase = "new"
    /\ mw' = Defaults(mw)
    /\ phase' = IF Fatal(mw) # "nil" THEN "fatal" ELSE "ready"
    /\ UNCHANGED <<config, now, held, res>>

\* the server is ready and handles no request
Idle == phase = "ready" /\ res = NoOutcome

\* the clock advances between two requests
Tick ==
    /\ Idle
    /\ now < MaxTime
    /\ now' = now + 1
    /\ UNCHANGED <<config, mw, phase, held, res>>

\* the response of the request is written and the request is over
Done ==
    /\ phase = "ready"
    /\ res # NoOutcome
    /\ res' = NoOutcome
    /\ UNCHANGED <<config, mw, phase, now, held>>

----------------------------------------------------------------------------
(* The requests a client can send *)

LoginBodies ==
    {NoBody, Body(TRUE, "alice", "pw"), Body(TRUE, "alice", "guess"),
     Body(TRUE, "bob", "pw"), Body(TRUE, "eve", "pw")}

\* another HMAC method than the configured one
OtherAlgorithm(m) == IF m.SigningAlgorithm = "HS512" THEN "HS256" ELSE "HS512"

ForgedClaims == [id |-> Str("alice"), exp |-> I64(FarFuture), orig_iat |-> I64(0)]
\* signed with a key that is not the configured one
WrongKeyToken(m) == SignedString(m.SigningAlgorithm, ForgedClaims, OtherKey)
\* signed with the configured key under another algorithm
AlgSwapToken(m) == SignedString(OtherAlgorithm(m), ForgedClaims, m.Key)
\* names an algorithm the library does not know
UnknownAlgToken(m) == [SignedString(m.SigningAlgorithm, ForgedClaims, m.Key) EXCEPT !.alg = "XX"]
\* a signature of the configured key over other claims
TamperedToken(m) ==
    [SignedString(m.SigningAlgorithm, [ForgedClaims EXCEPT !.exp = I64(0)], m.Key)
        EXCEPT !.claims = EncodeClaims(ForgedClaims)]
\* signed with the configured key by another issuer: no id claim
MissingIdToken(m) == SignedString(m.SigningAlgorithm, [exp |-> I64(FarFuture)], m.Key)
\* signed with the configured key by another issuer: a numeric id claim
NumericIdToken(m) ==
    SignedString(m.SigningAlgorithm,
                 [id |-> I64(7), exp |-> I64(FarFuture), orig_iat |-> I64(0)], m.Key)

ForgedTokens(m) ==
    {Garbage, WrongKeyToken(m), AlgSwapToken(m), UnknownAlgToken(m), TamperedToken(m)}
ForeignTokens(m) == {MissingIdToken(m), NumericIdToken(m)}

\* the Authorization headers of the requests
Headers ==
    {NoHeader, Header(1, "Bearer", NoToken), Header(2, "Basic", Garbage)}
    \cup {Bearer(tk) : tk \in HeldTokens \cup ForgedTokens(mw) \cup ForeignTokens(mw)}

----------------------------------------------------------------------------
(* The request gate *)

\* faulty variant: the gate sets the default Timeout while it serves a request
middlewareImpl_SetsTimeout(h, authz) ==
    /\ Idle
    /\ res' = Rejected("gate", h, NoBody, <<>>)
    /\ mw' = [mw EXCEPT !.Timeout = Hour]
    /\ UNCHANGED <<config, phase, now, held>>

middlewareImpl(h, authz) ==
    /\ Idle
    /\ LET err == parseToken(mw, h, now)
           claims == ParsedClaims(h)
           id == claims["id"].s
           ok == IF mw.Authorizator = "user" THEN authz ELSE TRUE
           env == [REMOTE_USER |-> id, JWT_PAYLOAD |-> claims, TOKEN |-> h.cred]
           authorizator == <<Call("Authorizator", id, NoToken, 0, ok)>>
           handler == <<Call("handler", id, h.cred, 0, TRUE)>>
       IN  res' =
             IF err # "nil" THEN Rejected("gate", h, NoBody, <<>>)
             ELSE IF ~IsString(claims, "id") THEN Panicked("gate", h, NoBody, <<>>)
             ELSE IF ~ok THEN Rejected("gate", h, NoBody, authorizator)
             ELSE Outcome("gate", h, NoBody, "handler", HandlerResponse,
                          authorizator \o handler, NoToken, env)
    /\ UNCHANGED <<config, mw, phase, now, held>>

----------------------------------------------------------------------------
(* Login *)

\* faulty variant: the claims provider's entries are merged after the reserved keys
LoginClaims_PayloadLast(m, username, t) ==
    LET c1 == [id |-> Str(username), exp |-> I64(t + m.Timeout)]
        c2 == IF m.MaxRefresh # 0 THEN Put(c1, "orig_iat", I64(t)) ELSE c1
    IN  IF m.PayloadFunc.set THEN CopyInto(c2, m.PayloadFunc.ret) ELSE c2

\* the claims LoginHandler builds for username at time t
LoginClaims(m, username, t) ==
    LET payload == IF m.PayloadFunc.set
                   THEN CopyInto(EmptyClaims, m.PayloadFunc.ret)
                   ELSE EmptyClaims
        c1 == Put(payload, "id", Str(username))
        c2 == Put(c1, "exp", I64(t + m.Timeout))
    IN  IF m.MaxRefresh # 0 THEN Put(c2, "orig_iat", I64(t)) ELSE c2

\* faulty variant: the result of Authenticator is ignored
LoginError_NoAuthenticator(m, b) ==
    IF ~b.ok THEN "decode"
    ELSE IF ~CanSign(m.SigningAlgorithm) THEN "sign"
    ELSE "nil"

\* why LoginHandler answers with mw.unauthorized: the body does not decode,
\* Authenticator refuses, or SignedString fails ("nil": it does not)
LoginError(m, b) ==
    IF ~b.ok THEN "decode"
    ELSE IF ~Authenticator(b.Username, b.Password) THEN "authenticator"
    ELSE IF ~CanSign(m.SigningAlgorithm) THEN "sign"
    ELSE "nil"

\* faulty variant: the token is persisted for MaxRefresh instead of Timeout
StoreToken_ForMaxRefresh(m, userId, tokenString) ==
    IF m.StoreToken
    THEN <<Call("StoreToken", userId, tokenString, m.MaxRefresh, TRUE)>>
    ELSE <<>>

\* mw.StoreToken(mw.Timeout)(userId, tokenString), when the hook is set
StoreToken(m, userId, tokenString) ==
    IF m.StoreToken
    THEN <<Call("StoreToken", userId, tokenString, m.Timeout, TRUE)>>
    ELSE <<>>

\* mw.RemoveToken(userId, raw), when the hook is set
RemoveToken(m, userId, raw) ==
    IF m.RemoveToken
    THEN <<Call("RemoveToken", userId, raw, 0, TRUE)>>
    ELSE <<>>

LoginHandler(b) ==
    /\ Idle
    /\ LET u == b.Username
           authenticated == Authenticator(u, b.Password)
           authenticator == <<Call("Authenticator", u, NoToken, 0, authenticated)>>
           payloadFunc == IF mw.PayloadFunc.set
                          THEN <<Call("PayloadFunc", u, NoToken, 0, TRUE)>>
                          ELSE <<>>
           tokenString == SignedString(mw.SigningAlgorithm, LoginClaims(mw, u, now), mw.Key)
           storeToken == StoreToken(mw, u, tokenString)
           loginCallback == <<Call("LoginCallback", "", tokenString, 0, TRUE)>>
           err == LoginError(mw, b)
       IN  IF err = "decode"
           THEN /\ res' = Rejected("login", NoHeader, b, <<>>)
                /\ UNCHANGED held
           ELSE IF err = "authenticator"
           THEN /\ res' = Rejected("login", NoHeader, b, authenticator)
                /\ UNCHANGED held
           ELSE IF err = "sign"
           THEN /\ res' = Rejected("login", NoHeader, b, authenticator \o payloadFunc)
                /\ UNCHANGED held
           ELSE /\ res' = Outcome("login", NoHeader, b, "token", defaultResponseCallback,
                                  authenticator \o payloadFunc \o storeToken \o loginCallback,
                                  tokenString, NoEnv)
                /\ held' = [t0 |-> now, root |-> tokenString, prev |-> NoToken,
                            cur |-> tokenString]
    /\ UNCHANGED <<config, mw, phase, now>>

----------------------------------------------------------------------------
(* Refresh *)

\* faulty variant: the last moment of the window is refused
WindowExceeded_LastMoment(m, origIat, t) == origIat <= t - m.MaxRefresh

\* the refresh window is over at time t for a token first issued at origIat
WindowExceeded(m, origIat, t) == origIat < t - m.MaxRefresh

\* faulty variant: orig_iat is renewed to the time of the refresh
RefreshClaims_RenewIat(m, claims, t) ==
    [k \in DOMAIN claims \cup {"id", "exp", "orig_iat"} |->
        IF k = "exp" THEN I64(t + m.Timeout)
        ELSE IF k = "orig_iat" THEN I64(t)
        ELSE IF k \in DOMAIN claims THEN claims[k] ELSE Nil]

\* faulty variant: exp is copied from the presented token
RefreshClaims_KeepExp(m, claims, t) ==
    [k \in DOMAIN claims \cup {"id", "exp", "orig_iat"} |->
        IF k = "orig_iat" THEN I64(claims["orig_iat"].n)
        ELSE IF k \in DOMAIN claims THEN claims[k] ELSE Nil]

\* the claims RefreshHandler builds at time t from the presented token's
RefreshClaims(m, claims, t) ==
    LET c0 == CopyInto(EmptyClaims, claims)
        c1 == Put(c0, "id", Lookup(claims, "id"))
        c2 == Put(c1, "exp", I64(t + m.Timeout))
    IN  Put(c2, "orig_iat", I64(Int64(claims["orig_iat"])))

RefreshHandler(h) ==
    /\ Idle
    /\ LET err == parseToken(mw, h, now)
           claims == ParsedClaims(h)
           newClaims == RefreshClaims(mw, claims, now)
           tokenString == SignedString(mw.SigningAlgorithm, newClaims, mw.Key)
           userId == newClaims["id"].s
           storeToken == StoreToken(mw, userId, tokenString)
           removeToken == RemoveToken(mw, userId, h.cred)
           refreshCallback == <<Call("RefreshCallback", "", tokenString, 0, TRUE)>>
       IN  IF err # "nil"
           THEN /\ res' = Rejected("refresh", h, NoBody, <<>>)
                /\ UNCHANGED held
           ELSE IF ~IsFloat64(claims, "orig_iat")
           THEN /\ res' = Panicked("refresh", h, NoBody, <<>>)
                /\ UNCHANGED held
           ELSE IF WindowExceeded(mw, Int64(claims["orig_iat"]), now)
           THEN /\ res' = Rejected("refresh", h, NoBody, <<>>)
                /\ UNCHANGED held
           ELSE IF ~CanSign(mw.SigningAlgorithm)
           THEN /\ res' = Rejected("refresh", h, NoBody, <<>>)
                /\ UNCHANGED held
           ELSE IF ~IsString(newClaims, "id")
           THEN /\ res' = Panicked("refresh", h, NoBody, <<>>)
                /\ UNCHANGED held
           ELSE /\ res' = Outcome("refresh", h, NoBody, "token", defaultResponseCallback,
                                  storeToken \o removeToken \o refreshCallback,
                                  tokenString, NoEnv)
                /\ held' = IF h.cred \in HeldTokens
                           THEN [held EXCEPT !.prev = h.cred, !.cur = tokenString]
                           ELSE held
    /\ UNCHANGED <<config, mw, phase, now>>

----------------------------------------------------------------------------

Next ==
    \/ MiddlewareFunc
    \/ Tick
    \/ Done
    \/ \E h \in Headers, authz \in BOOLEAN : middlewareImpl(h, authz)
    \/ \E b \in LoginBodies : LoginHandler(b)
    \/ \E h \in Headers : RefreshHandler(h)

Spec == Init /\ [][Next]_vars

----------------------------------------------------------------------------
(* What the properties below speak of *)

\* the token string the request presented, when the extractor found one
Extracted == res.hdr.parts = 2 /\ res.hdr.scheme = "Bearer"
Presented == res.hdr.cred

Called(fn) == \E i \in DOMAIN res.calls : res.calls[i].fn = fn
CallsOf(fn) == {i \in DOMAIN res.calls : res.calls[i].fn = fn}
Returned(fn, ret) ==
    \E i \in DOMAIN res.calls : res.calls[i].fn = fn /\ res.calls[i].ret = ret

\* the numeric claim key of a token string
HasNumber(tok, key) == key \in DOMAIN tok.claims /\ tok.claims[key].kind = "number"
NumberOf(tok, key) == tok.claims[key].n
HasStringId(tok) == "id" \in DOMAIN tok.claims /\ tok.claims["id"].kind = "string"

\* the signature of tok verifies under the configured key and algorithm
SignedAsConfigured(tok) ==
    /\ tok.wf
    /\ tok.alg = mw.SigningAlgorithm
    /\ tok.alg \in HMACMethods
    /\ tok.sig = Signature(mw.SigningAlgorithm, mw.Key, tok.claims)

\* tok is valid at time t: signed as configured and exp not passed
ValidAt(tok, t) ==
    SignedAsConfigured(tok) /\ (HasNumber(tok, "exp") => t <= NumberOf(tok, "exp"))

Unauthorized401 ==
    /\ res.out = "unauthorized"
    /\ res.resp = [status |-> 401, challenge |-> "JWT realm=" \o mw.Realm,
                   msg |-> "Not Authorized"]
    /\ res.token = NoToken

\* the Timeout in force: the configured one, or one hour
EffectiveTimeout == IF config.Timeout = 0 THEN Hour ELSE config.Timeout

----------------------------------------------------------------------------
(* C1 *)

\* the wrapped handler runs only for an extracted, verified, authorized token
C1_HandlerOnlyWhenAuthorized ==
    (res.op = "gate" /\ Called("handler")) =>
        /\ Extracted
        /\ ValidAt(Presented, res.t)
        /\ Returned("Authorizator", TRUE)

\* C1: the gate invokes the wrapped handler only if a token was extracted,
\* passed verification and Authorizator returned true; in every other case
\* the handler is not invoked and the request ends in the 401 rejection
C1_GateAdmitsOrRejects ==
    /\ C1_HandlerOnlyWhenAuthorized
    /\ (res.op = "gate" /\ ~Called("handler")) => Unauthorized401

----------------------------------------------------------------------------
(* C2 *)

\* a gate request that presents a token this middleware issued, with an
\* Authorizator that accepts
GateOnIssued ==
    /\ res.op = "gate"
    /\ Extracted
    /\ Presented \in HeldTokens
    /\ ~Returned("Authorizator", FALSE)

\* C2 as stated: an issued token is accepted at time t iff its signature
\* verifies and its exp is strictly greater than t
C2_AcceptedIffExpAfter ==
    GateOnIssued =>
        (res.out = "handler" <=>
            SignedAsConfigured(Presented) /\ NumberOf(Presented, "exp") > res.t)

\* C2 amended: an issued token is accepted at time t iff its signature
\* verifies and t has not passed its exp (t <= exp); it is rejected at every
\* time after exp
C2_AcceptedIffExpNotPassed ==
    GateOnIssued =>
        (res.out = "handler" <=>
            SignedAsConfigured(Presented) /\ NumberOf(Presented, "exp") >= res.t)

\* an issued token is accepted in the second of its exp
C2_Witness ==
    /\ GateOnIssued
    /\ NumberOf(Presented, "exp") = res.t
    /\ res.out = "handler"

----------------------------------------------------------------------------
(* C3 *)

\* C3: a login with credentials Authenticator accepts emits (when signing
\* succeeds) a token with id = username, exp = now + Timeout (one hour when
\* none was configured) and orig_iat = now when MaxRefresh # 0
C3_LoginClaims ==
    (res.op = "login" /\ res.body.ok
        /\ Authenticator(res.body.Username, res.body.Password)
        /\ mw.SigningAlgorithm \in HMACMethods) =>
        /\ res.out = "token"
        /\ Called("LoginCallback")
        /\ res.token.claims["id"] = Str(res.body.Username)
        /\ res.token.claims["exp"] = JNum(res.t + EffectiveTimeout)
        /\ (config.MaxRefresh # 0 =>
              /\ "orig_iat" \in DOMAIN res.token.claims
              /\ res.token.claims["orig_iat"] = JNum(res.t))

\* a login after time 0 under the default Timeout and with refresh enabled,
\* whose claims provider returns reserved keys
C3_Witness ==
    /\ res.op = "login"
    /\ res.out = "token"
    /\ res.t > 0
    /\ config.Timeout = 0
    /\ config.MaxRefresh # 0
    /\ config.PayloadFunc = ReservedPayload
    /\ res.token.claims["exp"] = JNum(res.t + Hour)

----------------------------------------------------------------------------
(* C4 *)

\* C4: a login whose body does not decode, whose credentials Authenticator
\* rejects or whose signing fails ends in the 401 rejection; no token is
\* emitted through LoginCallback, StoreToken is not called, and PayloadFunc
\* is not called when the credentials were rejected
C4_FailedLoginRejected ==
    LET refused == ~res.body.ok
                   \/ ~Authenticator(res.body.Username, res.body.Password)
    IN  (res.op = "login" /\ (refused \/ mw.SigningAlgorithm \notin HMACMethods)) =>
            /\ Unauthorized401
            /\ ~Called("LoginCallback")
            /\ ~Called("StoreToken")
            /\ (refused => ~Called("PayloadFunc"))

\* wrong credentials are refused while PayloadFunc and StoreToken are configured
C4_Witness ==
    /\ res.op = "login"
    /\ res.body.ok
    /\ ~Authenticator(res.body.Username, res.body.Password)
    /\ mw.PayloadFunc.set
    /\ mw.StoreToken
    /\ res.out = "unauthorized"

----------------------------------------------------------------------------
(* C5 *)

\* the claims of tok other than exp
Carried(tok) == [k \in DOMAIN tok.claims \ {"exp"} |-> tok.claims[k]]

\* a refresh that presented a token of the session succeeded
RefreshedHeld ==
    /\ res.op = "refresh"
    /\ res.out = "token"
    /\ Extracted
    /\ Presented = held.prev
    /\ res.token = held.cur

\* C5: after any chain of successful refreshes that began with one login the
\* latest token carries the id and the orig_iat of the login's token, and a
\* refresh copies every claim of the presented token but exp unchanged
C5_RefreshPreservesClaims ==
    /\ \A tok \in HeldTokens :
          /\ tok.claims["id"] = held.root.claims["id"]
          /\ Lookup(tok.claims, "orig_iat") = Lookup(held.root.claims, "orig_iat")
    /\ (res.op = "refresh" /\ res.out = "token") =>
          Carried(res.token) = Carried(Presented)

\* the second refresh of a chain, later than the login, of a token with a
\* claim of the claims provider
C5_Witness ==
    /\ RefreshedHeld
    /\ held.prev # held.root
    /\ res.t > held.t0
    /\ "role" \in DOMAIN held.cur.claims
    /\ HasNumber(held.cur, "orig_iat")
    /\ NumberOf(held.cur, "orig_iat") = held.t0

----------------------------------------------------------------------------
(* C6 *)

\* C6 as stated: a successful refresh at time now gives exp = now + Timeout,
\* later than the exp of the presented token
C6_RefreshAdvancesExp ==
    (res.op = "refresh" /\ res.out = "token") =>
        /\ NumberOf(res.token, "exp") = res.t + EffectiveTimeout
        /\ NumberOf(res.token, "exp") > NumberOf(Presented, "exp")

\* C6 amended: a successful refresh at time now gives exp = now + Timeout,
\* and for a presented token that this middleware issued this exp is not
\* earlier than the presented token's exp (equal when the refresh happens in
\* the second the presented token was issued in)
C6_RefreshNeverShortensExp ==
    (res.op = "refresh" /\ res.out = "token") =>
        /\ res.token.claims["exp"] = JNum(res.t + EffectiveTimeout)
        /\ (Presented = held.prev =>
              NumberOf(res.token, "exp") >= NumberOf(Presented, "exp"))

\* a refresh that moved exp forward
C6_Witness ==
    /\ RefreshedHeld
    /\ NumberOf(res.token, "exp") = res.t + EffectiveTimeout
    /\ NumberOf(res.token, "exp") > NumberOf(Presented, "exp")

----------------------------------------------------------------------------
(* C7 *)

\* a refresh request that presents a token the gate admits (valid, with a
\* string id) and that carries a numeric orig_iat
RefreshOfValid ==
    /\ res.op = "refresh"
    /\ Extracted
    /\ ValidAt(Presented, res.t)
    /\ HasStringId(Presented)
    /\ HasNumber(Presented, "orig_iat")

\* C7: such a refresh is rejected when orig_iat < now - MaxRefresh, though the
\* token has not expired, and succeeds when now <= orig_iat + MaxRefresh, the
\* last moment included
C7_RefreshWindow ==
    RefreshOfValid =>
        /\ (NumberOf(Presented, "orig_iat") < res.t - config.MaxRefresh =>
              Unauthorized401 /\ res.calls = <<>>)
        /\ (res.t <= NumberOf(Presented, "orig_iat") + config.MaxRefresh =>
              res.out = "token" /\ Called("RefreshCallback"))

\* a token issued by a refresh less than MaxRefresh ago, and not expired, is
\* refused because the login is more than MaxRefresh ago
C7_Witness ==
    /\ RefreshOfValid
    /\ Presented \in HeldTokens
    /\ Presented # held.root
    /\ res.t < NumberOf(Presented, "exp")
    /\ res.t - held.t0 > config.MaxRefresh
    /\ config.MaxRefresh # 0
    /\ res.out = "unauthorized"

\* a refresh succeeds in the last second of the window
C7_LastMoment ==
    /\ RefreshOfValid
    /\ config.MaxRefresh # 0
    /\ res.t = NumberOf(Presented, "orig_iat") + config.MaxRefresh
    /\ res.out = "token"

----------------------------------------------------------------------------
(* C8 *)

\* C8: every token obtained from a login at time t0 and any number of
\* refreshes has exp <= t0 + MaxRefresh + Timeout, so the gate accepts no
\* token of the session after that time
C8_LifetimeCeiling ==
    \A tok \in HeldTokens :
        /\ NumberOf(tok, "exp") <= held.t0 + config.MaxRefresh + EffectiveTimeout
        /\ (res.op = "gate" /\ Extracted /\ Presented = tok /\ res.out = "handler") =>
              res.t <= held.t0 + config.MaxRefresh + EffectiveTimeout

\* the ceiling for the sessions whose login set orig_iat itself
C8_CeilingWhenRefreshEnabled ==
    config.MaxRefresh # 0 => C8_LifetimeCeiling

----------------------------------------------------------------------------
(* C9 *)

\* C9: RefreshHandler never exchanges a token that has expired or that fails
\* the verification of signature and algorithm, be it inside the refresh
\* window: the request is rejected and StoreToken, RemoveToken and
\* RefreshCallback are not invoked
C9_RefreshReverifies ==
    (res.op = "refresh" /\ ~(Extracted /\ ValidAt(Presented, res.t))) =>
        /\ Unauthorized401
        /\ ~Called("StoreToken")
        /\ ~Called("RemoveToken")
        /\ ~Called("RefreshCallback")

\* an expired token of the session is refused inside its refresh window,
\* with both store callbacks configured
C9_Witness ==
    /\ res.op = "refresh"
    /\ Extracted
    /\ Presented \in HeldTokens
    /\ NumberOf(Presented, "exp") < res.t
    /\ res.t <= NumberOf(Presented, "orig_iat") + config.MaxRefresh
    /\ mw.StoreToken
    /\ mw.RemoveToken
    /\ res.out = "unauthorized"

----------------------------------------------------------------------------
(* C10 *)

\* C10: a token whose algorithm is not the configured SigningAlgorithm is
\* rejected by the gate and by refresh, whatever its signature
C10_OtherAlgorithmRejected ==
    (res.op \in {"gate", "refresh"} /\ Extracted /\ Presented.wf
        /\ Presented.alg # mw.SigningAlgorithm) =>
        /\ Unauthorized401
        /\ ~Called("handler")
        /\ ~Called("RefreshCallback")

\* the gate refuses a token signed with the configured key under another
\* HMAC algorithm, whose signature that algorithm verifies
C10_Witness ==
    /\ res.op = "gate"
    /\ Extracted
    /\ Presented.alg \in HMACMethods \ {mw.SigningAlgorithm}
    /\ Presented.sig = Signature(Presented.alg, mw.Key, Presented.claims)
    /\ res.out = "unauthorized"

----------------------------------------------------------------------------
(* C11 *)

\* the requests that are rejected all get the one response of mw.unauthorized
C11_RejectionsUniform ==
    res.out = "unauthorized" =>
        res.resp = [status |-> 401, challenge |-> "JWT realm=" \o mw.Realm,
                    msg |-> "Not Authorized"]

\* C11: every request to the gate, to login or to refresh that ends neither
\* in admission nor in an emitted token ends in the one 401 response,
\* whichever check failed; no request ends in a crash
C11_UniformRejectionNoCrash ==
    /\ C11_RejectionsUniform
    /\ (res.op \in {"gate", "login", "refresh"} /\ res.out \notin {"handler", "token"}) =>
          Unauthorized401

----------------------------------------------------------------------------
(* C12 *)

\* C12: MiddlewareFunc ends in log.Fatal, and returns no handler, whenever
\* the realm is empty, the key is missing or an empty byte sequence, or
\* Authenticator is missing; it succeeds otherwise
C12_ConstructionFailsFast ==
    phase # "new" =>
        (phase = "fatal" <=>
            \/ config.Realm = ""
            \/ config.Key.isNil
            \/ config.Key.bytes = <<>>
            \/ ~config.Authenticator)

\* construction as the code decides it: the key only has to be non-nil
C12_FatalOnNilOnly ==
    phase # "new" =>
        (phase = "fatal" <=>
            config.Realm = "" \/ config.Key.isNil \/ ~config.Authenticator)

----------------------------------------------------------------------------
(* C13 *)

\* C13: a correctly signed, unexpired token whose id claim is missing or is
\* not a string is rejected by the gate with the 401 response; the handler
\* is not invoked and the gate does not crash
C13_MalformedIdRejected ==
    (res.op = "gate" /\ Extracted /\ ValidAt(Presented, res.t)
        /\ ~HasStringId(Presented)) =>
        /\ Unauthorized401
        /\ ~Called("handler")

\* what the code does with such a token: the handler does not run
C13_MalformedIdNotAdmitted ==
    (res.op = "gate" /\ Extracted /\ ValidAt(Presented, res.t)
        /\ ~HasStringId(Presented)) =>
        /\ res.out = "panic"
        /\ res.calls = <<>>

----------------------------------------------------------------------------
(* C14 *)

\* RefreshHandler emits a token only for a presented token with a numeric
\* orig_iat
C14_TokenOnlyWithOrigIat ==
    (res.op = "refresh" /\ res.out = "token") => HasNumber(Presented, "orig_iat")

\* C14: RefreshHandler issues a token only when the presented token carries
\* a numeric orig_iat; a valid token without one (such as a login's token
\* under MaxRefresh = 0) is rejected with the 401 response and no token is
\* signed, stored or emitted
C14_MissingOrigIatRejected ==
    /\ C14_TokenOnlyWithOrigIat
    /\ (res.op = "refresh" /\ Extracted /\ ValidAt(Presented, res.t)
          /\ ~HasNumber(Presented, "orig_iat")) =>
          /\ Unauthorized401
          /\ res.calls = <<>>

----------------------------------------------------------------------------
(* C15 *)

ReservedKeys == {"id", "exp", "orig_iat"}

\* a login that emitted a token
LoginIssued == res.op = "login" /\ res.out = "token"

\* id and exp are the middleware's, and the claims provider's other entries
\* are carried as returned
C15_IdExpWinOthersKept ==
    LoginIssued =>
        /\ res.token.claims["id"] = Str(res.body.Username)
        /\ res.token.claims["exp"] = JNum(res.t + EffectiveTimeout)
        /\ mw.PayloadFunc.set =>
              \A k \in DOMAIN mw.PayloadFunc.ret \ ReservedKeys :
                  /\ k \in DOMAIN res.token.claims
                  /\ res.token.claims[k] = ToJSON(mw.PayloadFunc.ret[k])

\* C15: at login the reserved keys win over the claims provider's map,
\* whatever it returns: id is the username, exp is now + Timeout and
\* orig_iat, if present, is now; the provider's other entries are unchanged
C15_ReservedKeysWin ==
    /\ C15_IdExpWinOthersKept
    /\ (LoginIssued /\ "orig_iat" \in DOMAIN res.token.claims) =>
          res.token.claims["orig_iat"] = JNum(res.t)

\* with refresh enabled orig_iat is the time of the login, whatever the
\* claims provider returns
C15_ReservedKeysWinWhenRefreshable ==
    (LoginIssued /\ mw.MaxRefresh # 0) =>
        /\ "orig_iat" \in DOMAIN res.token.claims
        /\ res.token.claims["orig_iat"] = JNum(res.t)

----------------------------------------------------------------------------
(* C16 *)

\* C16: a token issued by login or refresh contains orig_iat only when
\* MaxRefresh # 0; with MaxRefresh = 0 no issued token carries orig_iat,
\* whatever the claims provider returns
C16_OrigIatOnlyWhenRefreshable ==
    (res.op \in {"login", "refresh"} /\ res.out = "token"
        /\ "orig_iat" \in DOMAIN res.token.claims) =>
        mw.MaxRefresh # 0

\* under MaxRefresh = 0 a login's token carries orig_iat only when the
\* claims provider returned one, and then with the provider's value
C16_OrigIatOnlyFromProvider ==
    (res.op = "login" /\ res.out = "token" /\ mw.MaxRefresh = 0
        /\ "orig_iat" \in DOMAIN res.token.claims) =>
        /\ mw.PayloadFunc.set
        /\ "orig_iat" \in DOMAIN mw.PayloadFunc.ret
        /\ res.token.claims["orig_iat"] = ToJSON(mw.PayloadFunc.ret["orig_iat"])

----------------------------------------------------------------------------
(* C17 *)

\* neither StoreToken nor RemoveToken is configured
NoStoreHooks == ~mw.StoreToken /\ ~mw.RemoveToken

\* the request presents, not later than its exp, the token that a successful
\* refresh of the session has replaced
PresentsSuperseded ==
    /\ NoStoreHooks
    /\ held.prev # NoToken
    /\ Extracted
    /\ Presented = held.prev
    /\ res.t <= NumberOf(held.prev, "exp")

\* C17 as stated: without store hooks the token a successful refresh has
\* replaced is still accepted by the gate, and can still be refreshed, at
\* every later time up to its own exp
C17_SupersededStillUsable ==
    PresentsSuperseded =>
        /\ (res.op = "gate" /\ ~Returned("Authorizator", FALSE)) => res.out = "handler"
        /\ res.op = "refresh" => res.out = "token"

\* C17: without store hooks the token a successful refresh has replaced is
\* still accepted by the gate at every later time up to its own exp, and can
\* still be refreshed at every such time inside the refresh window of the
\* login, so several tokens of one login are valid at the same time
C17_SupersededValidUntilExp ==
    PresentsSuperseded =>
        /\ (res.op = "gate" /\ ~Returned("Authorizator", FALSE)) => res.out = "handler"
        /\ (res.op = "refresh"
              /\ res.t <= NumberOf(held.prev, "orig_iat") + mw.MaxRefresh) =>
              res.out = "token"

\* the gate admits the replaced token later than the refresh that replaced
\* it, while the token of that refresh is valid too
C17_Witness ==
    /\ PresentsSuperseded
    /\ mw.MaxRefresh # 0
    /\ res.op = "gate"
    /\ res.out = "handler"
    /\ held.prev # held.cur
    /\ res.t > NumberOf(held.cur, "exp") - EffectiveTimeout
    /\ ValidAt(held.cur, res.t)

\* the replaced token is refreshed again, which gives a token other than
\* the one that replaced it
C17_RefreshedAgain ==
    /\ PresentsSuperseded
    /\ mw.MaxRefresh # 0
    /\ res.op = "refresh"
    /\ res.out = "token"
    /\ res.t = NumberOf(held.prev, "exp")
    /\ held.prev # held.root

----------------------------------------------------------------------------
(* C18 *)

\* where the request's token was handed to LoginCallback or RefreshCallback
Emissions ==
    {i \in CallsOf("LoginCallback") \cup CallsOf("RefreshCallback") :
        res.calls[i].tok = res.token}

\* C18: with StoreToken configured, every token that login or refresh emits
\* was persisted exactly once before, as (id of the token, token string) and
\* with the configured Timeout, ahead of LoginCallback or RefreshCallback;
\* StoreToken is never invoked for a rejected request
C18_StoredBeforeEmitted ==
    mw.StoreToken =>
        /\ (res.out = "token") =>
              /\ Emissions # {}
              /\ \E i \in DOMAIN res.calls :
                    /\ CallsOf("StoreToken") = {i}
                    /\ res.calls[i].user = res.token.claims["id"].s
                    /\ res.calls[i].tok = res.token
                    /\ res.calls[i].timeout = EffectiveTimeout
                    /\ \A j \in Emissions : i < j
        /\ (res.out # "token") =>
              /\ ~Called("StoreToken")
              /\ Emissions = {}

\* a refresh later than the login stores the new token, then hands it out
C18_Witness ==
    /\ mw.StoreToken
    /\ RefreshedHeld
    /\ res.t > held.t0
    /\ Called("StoreToken")
    /\ Emissions # {}

\* a login stores its token, then hands it out
C18_LoginStores ==
    /\ mw.StoreToken
    /\ LoginIssued
    /\ Called("StoreToken")
    /\ Emissions # {}

----------------------------------------------------------------------------
(* C19 *)

\* RemoveToken is invoked once on a successful refresh, with the id and the
\* raw string of the presented token, after StoreToken and ahead of
\* RefreshCallback; it is not invoked on a rejected refresh or by login
C19_RemovedOnceInOrder ==
    /\ (res.op = "refresh" /\ res.out = "token" /\ mw.RemoveToken) =>
          \E i \in DOMAIN res.calls :
              /\ CallsOf("RemoveToken") = {i}
              /\ res.calls[i].user = Presented.claims["id"].s
              /\ res.calls[i].tok = Presented
              /\ \A j \in CallsOf("StoreToken") : j < i
              /\ \A j \in Emissions : i < j
    /\ (res.op # "refresh" \/ res.out # "token") => ~Called("RemoveToken")

\* C19: on a successful refresh with RemoveToken configured, RemoveToken is
\* invoked exactly once, with the id and the raw string of the presented
\* (old) token, after the new token was stored and before it is emitted; it
\* is never invoked with the new token, never on a rejected refresh, and
\* login never invokes it
C19_RemovesOldNeverNew ==
    /\ C19_RemovedOnceInOrder
    /\ \A i \in CallsOf("RemoveToken") : res.calls[i].tok # res.token

\* RemoveToken receives the new token's string only when the refresh was
\* handled in the second in which the presented token was issued
C19_NewRemovedOnlyInSameSecond ==
    \A i \in CallsOf("RemoveToken") :
        (res.calls[i].tok = res.token /\ Presented \in HeldTokens) =>
            NumberOf(Presented, "exp") = res.t + EffectiveTimeout

----------------------------------------------------------------------------
(* C20 *)

C20_ConfigurationAsConstructed ==
    phase = "ready" => mw = Defaults(config)

====
